---- MODULE Spec2Model ----
(***************************************************************************)
(* The ARC58 abstracted account (AbstractedAccount) as a state machine.    *)
(*                                                                         *)
(* The contract's global state and boxes are the variables admin,          *)
(* controlledAddress, revocationApp, version, factoryApp, plugins,         *)
(* passkeys and namedPlugins.  The ledger contributes the controlled       *)
(* account's auth address (authAddr), the round (globals.round) and the    *)
(* transaction group being evaluated (txnGroup, groupIndex).  A group is   *)
(* evaluated one transaction at a time and is atomic: the first failing    *)
(* transaction rejects the group and every variable goes back to the       *)
(* value it had when the group started (committed).                        *)
(***************************************************************************)
EXTENDS Integers, Sequences, FiniteSets, TLC

(***************************************************************************)
(* Bounds of the model.                                                    *)
(***************************************************************************)
\* the longest transaction group the flash-rekey specification submits
MaxGroup == 3
\* the number of groups submitted in one behaviour
MaxBatches == 2
\* the last round of the grant specification
MaxRound == 4
\* the longest cooldown and the earliest expiry the grant specification registers
MaxCooldown == 2
ExpiryRound == 2
\* the last round of the cooldown scenario
ScenarioMaxRound == 8

(***************************************************************************)
(* Addresses and application ids.                                          *)
(***************************************************************************)
ZeroAddress == "ZERO"
\* The application ids: the abstracted account itself, two plugins, the
\* revocation app, the factory, and AppID.fromUint64(0).
ThisApp == "wallet"
NoApp == "app0"
Plugin1 == "plugin1"
Plugin2 == "plugin2"
RevokerApp == "revoker"
FactoryApp == "factory"

AppAddrOf ==
  [wallet |-> "wallet_addr", plugin1 |-> "plugin1_addr", plugin2 |-> "plugin2_addr",
   revoker |-> "revoker_addr", factory |-> "factory_addr", app0 |-> "app0_addr"]

\* app.address
AppAddr(app) == AppAddrOf[app]

AppAddress == AppAddr(ThisApp)
\* An externally created account handed to the contract, and two key holders.
ExtAddress == "ext"
Alice == "alice"
Bob == "bob"
\* The accounts that have a private key and so can sign a top-level transaction.
Keyed == {Alice, Bob, ExtAddress}

\* './constants': the domain whose passkeys are co-admins, and some other domain.
AkitaDomain == "akita"
OtherDomain == "example.com"

VARIABLES
  version,            \* GlobalStateKey 'v'
  factoryApp,         \* GlobalStateKey 'f'
  admin,              \* GlobalStateKey 'a'
  controlledAddress,  \* GlobalStateKey 'c'
  revocationApp,      \* GlobalStateKey 'r'
  plugins,            \* BoxMap PluginsKey -> PluginInfo
  passkeys,           \* BoxMap Address -> domain
  namedPlugins,       \* BoxMap name -> PluginsKey
  authAddr,           \* controlledAddress.value.authAddr (ZeroAddress: not rekeyed)
  round,              \* globals.round
  txnGroup,           \* this.txnGroup: the group being evaluated, <<>> between groups
  groupIndex,         \* 1-based position of the transaction evaluated next
  committed,          \* the contract and account state as of the last committed group
  outcome,            \* how the last finished group ended
  batches             \* groups submitted so far

vars ==
  <<version, factoryApp, admin, controlledAddress, revocationApp, plugins, passkeys,
    namedPlugins, authAddr, round, txnGroup, groupIndex, committed, outcome, batches>>

\* everything a rejected group rolls back
Ledger ==
  [version |-> version, factoryApp |-> factoryApp, admin |-> admin,
   controlledAddress |-> controlledAddress, revocationApp |-> revocationApp,
   plugins |-> plugins, passkeys |-> passkeys, namedPlugins |-> namedPlugins,
   authAddr |-> authAddr]

(***************************************************************************)
(* Transactions.  One record shape for every transaction of a group:       *)
(*   typeEnum       "pay" or "appl"                                        *)
(*   sender, signer the sender and the key that signed for it              *)
(*   rekeyTo        the transaction's RekeyTo (ZeroAddress: none)          *)
(*   applicationID  the application called (appl)                          *)
(*   method         applicationArgs[0] of a call to this app; for a call   *)
(*                  to another app, what that app does in its inner        *)
(*                  transaction: a method of this app it calls with        *)
(*                  itself as sender, or "rekey", a payment from the       *)
(*                  controlled address that rekeys it to addr              *)
(*   controlled     createApplication's controlledAddress argument         *)
(*   via            for a call one application makes to another inside an  *)
(*                  inner group of several transactions: the application   *)
(*                  that sends the inner group (NoApp: none)               *)
(*   the rest       the method's arguments                                 *)
(***************************************************************************)
BlankTxn ==
  [typeEnum |-> "pay", sender |-> ZeroAddress, signer |-> ZeroAddress,
   rekeyTo |-> ZeroAddress, applicationID |-> NoApp, method |-> "",
   plugin |-> NoApp, addr |-> ZeroAddress, allowedCaller |-> ZeroAddress,
   name |-> "", lastValidRound |-> 0, cooldown |-> 0, adminPrivileges |-> FALSE,
   isPasskey |-> FALSE, domain |-> "", version |-> "",
   controlled |-> ZeroAddress, via |-> NoApp]

\* A payment from `sender`, signed by `signer`, that rekeys the sender to `to`.
Pay(sender, signer, to) ==
  [BlankTxn EXCEPT !.typeEnum = "pay", !.sender = sender, !.signer = signer,
                   !.rekeyTo = to]

\* An application call to this app signed by its sender.
Call(sender, method) ==
  [BlankTxn EXCEPT !.typeEnum = "appl", !.sender = sender, !.signer = sender,
                   !.applicationID = ThisApp, !.method = method]

\* An application call to this app sent as the controlled address: signed by
\* `signer`, with the transaction's own RekeyTo set to `to`.
CallAs(sender, signer, to, method) ==
  [Call(sender, method) EXCEPT !.signer = signer, !.rekeyTo = to]

\* A call (by Bob) to another application, which acts in an inner transaction.
Inner(app, method) ==
  [BlankTxn EXCEPT !.typeEnum = "appl", !.sender = Bob, !.signer = Bob,
                   !.applicationID = app, !.method = method]

\* the number of application arguments of a call: the selector and the
\* method's own arguments
Arity ==
  [arc58_verifyAuthAddr |-> 0, arc58_rekeyTo |-> 1, arc58_rekeyToPlugin |-> 1,
   arc58_rekeyToNamedPlugin |-> 1, arc58_changeAdmin |-> 1,
   arc58_pluginChangeAdmin |-> 3, arc58_addPlugin |-> 7, arc58_removePlugin |-> 2,
   arc58_addNamedPlugin |-> 6, arc58_removeNamedPlugin |-> 1,
   changeRevocationApp |-> 1, updateApplication |-> 1, createApplication |-> 4,
   rekey |-> 2]

NumAppArgs(t) == 1 + Arity[t.method]

(***************************************************************************)
(* The transaction being evaluated and who calls the contract in it.       *)
(***************************************************************************)
Running == groupIndex \in 1..Len(txnGroup)

Txn == txnGroup[groupIndex]

\* this.txn.sender, as the called method sees it: the sender of a top-level
\* call, the calling application's address for an inner call
Sender(t) == IF t.applicationID = ThisApp THEN t.sender ELSE AppAddr(t.applicationID)

\* The step evaluates a call of `method` on this app.
Calls(method) ==
  /\ Running
  /\ Txn.typeEnum = "appl"
  /\ Txn.method = method

(***************************************************************************)
(* The ledger's part of evaluating a transaction.                          *)
(***************************************************************************)
\* The address whose key or program authorizes transactions sent by the
\* controlled address when its auth address is `a`.
Authorizer(a) == IF a = ZeroAddress THEN controlledAddress ELSE a

\* The auth address a rekey of `account` to `to` leaves: rekeying an account
\* to itself clears its auth address.
RekeyedAuth(account, to) == IF to = account THEN ZeroAddress ELSE to

\* The signature on a top-level transaction is by the sender's authorizer.
\* Only the controlled address is ever rekeyed here; application accounts
\* have no key.
Authorized(t) ==
  /\ t.signer \in Keyed
  /\ t.signer = (IF t.sender = controlledAddress THEN Authorizer(authAddr) ELSE t.sender)

\* The controlled account's auth address once the transaction's own RekeyTo
\* is applied, which the ledger does before it runs the called program.
AuthAfterHeader(t) ==
  IF t.sender = controlledAddress /\ t.rekeyTo # ZeroAddress
  THEN RekeyedAuth(controlledAddress, t.rekeyTo)
  ELSE authAddr

\* An inner transaction of application `app` with the controlled address as
\* its sender is valid only while the account is rekeyed to that application
\* (or is the application's own account, not rekeyed).
MaySpendAs(app, a) == Authorizer(a) = AppAddr(app)

(***************************************************************************)
(* The group a called method sees.  A top-level call sees the submitted    *)
(* group and its own position in it; a call made by another application    *)
(* in an inner transaction sees that inner group: the call alone, or, for  *)
(* an application that sends an inner group of several transactions, the   *)
(* consecutive entries with that application as `via`.                     *)
(***************************************************************************)
InnerCallTxn(t) ==
  [t EXCEPT !.sender = AppAddr(t.applicationID), !.signer = AppAddr(t.applicationID),
            !.applicationID = ThisApp, !.rekeyTo = ZeroAddress]

\* an entry of an inner group, as a method called in that group reads it: a
\* call of this app, or a call of another application
InnerView(t) ==
  IF t.applicationID = t.via
  THEN InnerCallTxn(t)
  ELSE [t EXCEPT !.sender = AppAddr(t.via), !.signer = AppAddr(t.via),
                 !.rekeyTo = ZeroAddress]

\* the positions of the inner group the evaluated entry belongs to
InnerRun ==
  { j \in 1..Len(txnGroup) :
      \A k \in 1..Len(txnGroup) :
         ((j <= k /\ k <= groupIndex) \/ (groupIndex <= k /\ k <= j))
           => txnGroup[k].via = Txn.via }

InnerStart == CHOOSE j \in InnerRun : \A k \in InnerRun : j <= k

ThisGroup ==
  IF Txn.applicationID = ThisApp THEN txnGroup
  ELSE IF Txn.via = NoApp THEN <<InnerCallTxn(Txn)>>
  ELSE [j \in 1..Cardinality(InnerRun) |-> InnerView(txnGroup[InnerStart + j - 1])]

ThisIndex ==
  IF Txn.applicationID = ThisApp THEN groupIndex
  ELSE IF Txn.via = NoApp THEN 1
  ELSE groupIndex - InnerStart + 1

(***************************************************************************)
(* The contract's private functions.                                       *)
(***************************************************************************)
\* "The transaction is an explicit rekey back"
IsExplicitRekeyBack(t) ==
  /\ t.sender = controlledAddress
  /\ t.rekeyTo = controlledAddress

\* "The transaction is an application call to this app's arc58_verifyAuthAddr method"
IsVerifyAuthAddrCall(t) ==
  /\ t.typeEnum = "appl"
  /\ t.applicationID = ThisApp
  /\ NumAppArgs(t) = 1
  /\ t.method = "arc58_verifyAuthAddr"

\* The loop runs from the calling transaction's own index to the end of the
\* group and stops at the first transaction of either shape.
verifyRekeyToAbstractedAccount(group, index) ==
  \E i \in index..Len(group) :
     IsExplicitRekeyBack(group[i]) \/ IsVerifyAuthAddrCall(group[i])

getAuthAddr == IF controlledAddress = AppAddress THEN ZeroAddress ELSE AppAddress

\* isAdmin without the passkeys of the akita domain
isAdmin_AdminOnly(sender) == sender = admin

\* isAdmin with the revocation app counted as an admin
isAdmin_OrRevoker(sender) ==
  \/ sender = admin
  \/ sender \in DOMAIN passkeys /\ passkeys[sender] = AkitaDomain
  \/ sender = AppAddr(revocationApp)

\* isAdmin with any passkey, whatever its domain
isAdmin_AnyDomain(sender) == sender = admin \/ sender \in DOMAIN passkeys

isAdmin(sender) ==
  \/ sender = admin
  \/ /\ sender \in DOMAIN passkeys
     /\ passkeys[sender] = AkitaDomain

canRevoke(sender) == sender = AppAddr(revocationApp)

PluginsKey(app, caller) == [application |-> app, allowedCaller |-> caller]

\* pluginCallAllowed with the cooldown compared by > instead of >=
pluginCallAllowed_StrictCooldown(app, caller) ==
  LET key == PluginsKey(app, caller) IN
    /\ key \in DOMAIN plugins
    /\ plugins[key].lastValidRound >= round
    /\ (round - plugins[key].lastCalled) > plugins[key].cooldown

\* pluginCallAllowed without the comparison of lastValidRound with the round
pluginCallAllowed_NoExpiry(app, caller) ==
  LET key == PluginsKey(app, caller) IN
    /\ key \in DOMAIN plugins
    /\ (round - plugins[key].lastCalled) >= plugins[key].cooldown

\* pluginCallAllowed with the cooldown counted only once the plugin was called
pluginCallAllowed_FreshIsFree(app, caller) ==
  LET key == PluginsKey(app, caller) IN
    /\ key \in DOMAIN plugins
    /\ plugins[key].lastValidRound >= round
    /\ \/ plugins[key].lastCalled = 0
       \/ (round - plugins[key].lastCalled) >= plugins[key].cooldown

\* pluginCallAllowed without the comparison of the rounds since lastCalled
\* with the cooldown
pluginCallAllowed_NoCooldown(app, caller) ==
  LET key == PluginsKey(app, caller) IN
    /\ key \in DOMAIN plugins
    /\ plugins[key].lastValidRound >= round

pluginCallAllowed(app, caller) ==
  LET key == PluginsKey(app, caller) IN
    /\ key \in DOMAIN plugins
    /\ plugins[key].lastValidRound >= round
    /\ (round - plugins[key].lastCalled) >= plugins[key].cooldown

(***************************************************************************)
(* Box writes.                                                             *)
(***************************************************************************)
PluginInfo(lastValidRound, cooldown, adminPrivileges) ==
  [lastValidRound |-> lastValidRound, cooldown |-> cooldown, lastCalled |-> 0,
   adminPrivileges |-> IF adminPrivileges THEN 1 ELSE 0]

BoxPut(box, key, value) ==
  [k \in DOMAIN box \cup {key} |-> IF k = key THEN value ELSE box[k]]

\* box_del of a box that does not exist changes nothing
BoxDelete(box, key) == [k \in DOMAIN box \ {key} |-> box[k]]

(***************************************************************************)
(* How a step ends: the next transaction of the group, or the rejection    *)
(* of the whole group.                                                     *)
(***************************************************************************)
Advance ==
  /\ groupIndex' = groupIndex + 1
  /\ UNCHANGED <<txnGroup, committed, outcome, batches, round>>

Reject ==
  /\ version' = committed.version
  /\ factoryApp' = committed.factoryApp
  /\ admin' = committed.admin
  /\ controlledAddress' = committed.controlledAddress
  /\ revocationApp' = committed.revocationApp
  /\ plugins' = committed.plugins
  /\ passkeys' = committed.passkeys
  /\ namedPlugins' = committed.namedPlugins
  /\ authAddr' = committed.authAddr
  /\ txnGroup' = <<>>
  /\ groupIndex' = 1
  /\ outcome' = "rejected"
  /\ UNCHANGED <<committed, batches, round>>

\* The group is submitted in the current round; the round moves on between groups.
Idle == txnGroup = <<>>

SubmitGroup(groups, counted) ==
  /\ Idle
  /\ counted => batches < MaxBatches
  /\ \E g \in groups :
       /\ txnGroup' = g
       /\ groupIndex' = 1
  /\ batches' = (IF counted THEN batches + 1 ELSE batches)
  /\ outcome' = "none"
  /\ UNCHANGED <<version, factoryApp, admin, controlledAddress, revocationApp, plugins,
                 passkeys, namedPlugins, authAddr, round, committed>>

\* Every transaction of the group succeeded: the group's effects are kept.
Commit ==
  /\ ~Idle
  /\ groupIndex = Len(txnGroup) + 1
  /\ committed' = Ledger
  /\ txnGroup' = <<>>
  /\ groupIndex' = 1
  /\ outcome' = "committed"
  /\ UNCHANGED <<version, factoryApp, admin, controlledAddress, revocationApp, plugins,
                 passkeys, namedPlugins, authAddr, round, batches>>

NextRound(last) ==
  /\ Idle
  /\ round < last
  /\ round' = round + 1
  /\ UNCHANGED <<version, factoryApp, admin, controlledAddress, revocationApp, plugins,
                 passkeys, namedPlugins, authAddr, txnGroup, groupIndex, committed,
                 outcome, batches>>

(***************************************************************************)
(* Transactions that are not calls of this app.                            *)
(***************************************************************************)
\* A payment sent as the controlled address by whoever holds its authority.
\* Its RekeyTo is its only effect on the modelled state.
Payment ==
  /\ Running
  /\ Txn.typeEnum = "pay"
  /\ IF Authorized(Txn)
     THEN /\ authAddr' = AuthAfterHeader(Txn)
          /\ Advance
          /\ UNCHANGED <<version, factoryApp, admin, controlledAddress, revocationApp,
                         plugins, passkeys, namedPlugins>>
     ELSE Reject

\* A plugin (or any other application) sends a payment from the controlled
\* address that rekeys it to Txn.addr, as RecoveryPlugin.recover does to hand
\* the account back.
InnerRekey ==
  /\ Calls("rekey")
  /\ Txn.applicationID # ThisApp
  /\ IF Authorized(Txn) /\ MaySpendAs(Txn.applicationID, authAddr)
     THEN /\ authAddr' = RekeyedAuth(controlledAddress, Txn.addr)
          /\ Advance
          /\ UNCHANGED <<version, factoryApp, admin, controlledAddress, revocationApp,
                         plugins, passkeys, namedPlugins>>
     ELSE Reject

(***************************************************************************)
(* The contract's methods.  In each, the IF is the conjunction of the      *)
(* method's assertions (and of the ledger's checks on the transactions it  *)
(* sends); the THEN branch holds its writes.                               *)
(***************************************************************************)
updateApplication ==
  /\ Calls("updateApplication")
  /\ IF Authorized(Txn) /\ isAdmin(Sender(Txn))
     THEN /\ version' = Txn.version
          /\ authAddr' = AuthAfterHeader(Txn)
          /\ Advance
          /\ UNCHANGED <<factoryApp, admin, controlledAddress, revocationApp, plugins,
                         passkeys, namedPlugins>>
     ELSE Reject

changeRevocationApp ==
  /\ Calls("changeRevocationApp")
  /\ IF Authorized(Txn) /\ isAdmin(Sender(Txn))
     THEN /\ revocationApp' = Txn.plugin
          /\ authAddr' = AuthAfterHeader(Txn)
          /\ Advance
          /\ UNCHANGED <<version, factoryApp, admin, controlledAddress, plugins,
                         passkeys, namedPlugins>>
     ELSE Reject

arc58_changeAdmin ==
  /\ Calls("arc58_changeAdmin")
  /\ IF Authorized(Txn) /\ isAdmin(Sender(Txn))
     THEN /\ admin' = Txn.addr
          /\ authAddr' = AuthAfterHeader(Txn)
          /\ Advance
          /\ UNCHANGED <<version, factoryApp, controlledAddress, revocationApp, plugins,
                         passkeys, namedPlugins>>
     ELSE Reject

\* as pluginChangeAdminAllowed, but any existing entry will do
pluginChangeAdminAllowed_AnyEntry(sender, auth, plugin, allowedCaller) ==
  /\ sender = AppAddr(plugin)
  /\ auth = AppAddr(plugin)
  /\ PluginsKey(plugin, allowedCaller) \in DOMAIN plugins

\* verifyTxn(sender: plugin.address), PLUGIN_DOES_NOT_CONTROL_WALLET and
\* PLUGIN_DOES_NOT_HAVE_ADMIN_PRIVILEGES
pluginChangeAdminAllowed(sender, auth, plugin, allowedCaller) ==
  LET key == PluginsKey(plugin, allowedCaller) IN
    /\ sender = AppAddr(plugin)
    /\ auth = AppAddr(plugin)
    /\ key \in DOMAIN plugins
    /\ plugins[key].adminPrivileges # 0

arc58_pluginChangeAdmin ==
  /\ Calls("arc58_pluginChangeAdmin")
  /\ IF /\ Authorized(Txn)
        /\ pluginChangeAdminAllowed(Sender(Txn), AuthAfterHeader(Txn), Txn.plugin,
                                    Txn.allowedCaller)
     THEN /\ admin' = Txn.addr
          /\ authAddr' = AuthAfterHeader(Txn)
          /\ Advance
          /\ UNCHANGED <<version, factoryApp, controlledAddress, revocationApp, plugins,
                         passkeys, namedPlugins>>
     ELSE Reject

arc58_verifyAuthAddr ==
  /\ Calls("arc58_verifyAuthAddr")
  /\ IF Authorized(Txn) /\ AuthAfterHeader(Txn) = getAuthAddr
     THEN /\ authAddr' = AuthAfterHeader(Txn)
          /\ Advance
          /\ UNCHANGED <<version, factoryApp, admin, controlledAddress, revocationApp,
                         plugins, passkeys, namedPlugins>>
     ELSE Reject

\* The payment the contract sends from the controlled address needs the
\* contract to hold the account's authority when it is sent.
arc58_rekeyTo ==
  /\ Calls("arc58_rekeyTo")
  /\ IF /\ Authorized(Txn)
        /\ isAdmin(Sender(Txn))
        /\ MaySpendAs(ThisApp, AuthAfterHeader(Txn))
        /\ verifyRekeyToAbstractedAccount(ThisGroup, ThisIndex)
     THEN /\ authAddr' = RekeyedAuth(controlledAddress, Txn.addr)
          /\ Advance
          /\ UNCHANGED <<version, factoryApp, admin, controlledAddress, revocationApp,
                         plugins, passkeys, namedPlugins>>
     ELSE Reject

\* const globalAllowed = this.pluginCallAllowed(plugin, Address.zeroAddress)
globalAllowed(plugin) == pluginCallAllowed(plugin, ZeroAddress)

\* the assertion SENDER_NOT_ALLOWED_TO_CALL_PLUGIN, made only when the
\* wildcard entry does not allow the call
senderAllowed(plugin, sender) ==
  globalAllowed(plugin) \/ pluginCallAllowed(plugin, sender)

\* calledKey that always takes the sender's own entry
calledKey_AlwaysSender(plugin, sender) == PluginsKey(plugin, sender)

\* the key whose lastCalled the call writes
calledKey(plugin, sender) ==
  PluginsKey(plugin, IF globalAllowed(plugin) THEN ZeroAddress ELSE sender)

\* as stampLastCalled, but on every entry of the key's application
stampLastCalled_EveryEntry(key) ==
  [k \in DOMAIN plugins |->
     IF k.application = key.application
     THEN [plugins[k] EXCEPT !.lastCalled = round]
     ELSE plugins[k]]

\* the plugins box map after .lastCalled = globals.round on `key`
stampLastCalled(key) == [plugins EXCEPT ![key].lastCalled = round]

\* The body of arc58_rekeyToPlugin, which arc58_rekeyToNamedPlugin calls too.
rekeyToPluginSucceeds(plugin) ==
  /\ Authorized(Txn)
  /\ senderAllowed(plugin, Sender(Txn))
  /\ MaySpendAs(ThisApp, AuthAfterHeader(Txn))
  /\ verifyRekeyToAbstractedAccount(ThisGroup, ThisIndex)

rekeyToPluginWrites(plugin) ==
  /\ authAddr' = RekeyedAuth(controlledAddress, AppAddr(plugin))
  /\ plugins' = stampLastCalled(calledKey(plugin, Sender(Txn)))
  /\ Advance
  /\ UNCHANGED <<version, factoryApp, admin, controlledAddress, revocationApp,
                 passkeys, namedPlugins>>

arc58_rekeyToPlugin ==
  /\ Calls("arc58_rekeyToPlugin")
  /\ IF rekeyToPluginSucceeds(Txn.plugin)
     THEN rekeyToPluginWrites(Txn.plugin)
     ELSE Reject

\* Reading the value of a name that has no box fails.
arc58_rekeyToNamedPlugin ==
  /\ Calls("arc58_rekeyToNamedPlugin")
  /\ IF /\ Txn.name \in DOMAIN namedPlugins
        /\ rekeyToPluginSucceeds(namedPlugins[Txn.name].application)
     THEN rekeyToPluginWrites(namedPlugins[Txn.name].application)
     ELSE Reject

\* the plugins box map after arc58_addPlugin and arc58_addNamedPlugin write
\* the entry
pluginsAfterAdd(t) ==
  BoxPut(plugins, PluginsKey(t.plugin, t.allowedCaller),
         PluginInfo(t.lastValidRound, t.cooldown, t.adminPrivileges))

arc58_addPlugin ==
  /\ Calls("arc58_addPlugin")
  /\ IF /\ Authorized(Txn)
        /\ isAdmin(Sender(Txn))
        /\ (Txn.isPasskey => Txn.domain # "")
     THEN /\ plugins' = pluginsAfterAdd(Txn)
          /\ passkeys' = IF Txn.isPasskey
                         THEN BoxPut(passkeys, Txn.allowedCaller, Txn.domain)
                         ELSE passkeys
          /\ authAddr' = AuthAfterHeader(Txn)
          /\ Advance
          /\ UNCHANGED <<version, factoryApp, admin, controlledAddress, revocationApp,
                         namedPlugins>>
     ELSE Reject

\* as passkeysAfterRemove, but the allowed caller's passkey goes with the entry
passkeysAfterRemove_DropsPasskey(allowedCaller) == BoxDelete(passkeys, allowedCaller)

\* the passkeys box map after arc58_removePlugin, which deletes the plugins
\* box only
passkeysAfterRemove(allowedCaller) == passkeys

arc58_removePlugin ==
  /\ Calls("arc58_removePlugin")
  /\ IF /\ Authorized(Txn)
        /\ (isAdmin(Sender(Txn)) \/ canRevoke(Sender(Txn)))
     THEN /\ plugins' = BoxDelete(plugins, PluginsKey(Txn.plugin, Txn.allowedCaller))
          /\ passkeys' = passkeysAfterRemove(Txn.allowedCaller)
          /\ authAddr' = AuthAfterHeader(Txn)
          /\ Advance
          /\ UNCHANGED <<version, factoryApp, admin, controlledAddress, revocationApp,
                         namedPlugins>>
     ELSE Reject

\* as addNamedPluginAllowed, but a registered name is written over
addNamedPluginAllowed_Overwrites(sender, name) == isAdmin(sender)

\* ONLY_ADMIN_CAN_ADD_PLUGIN and NAMED_PLUGIN_ALREADY_EXISTS
addNamedPluginAllowed(sender, name) ==
  /\ isAdmin(sender)
  /\ name \notin DOMAIN namedPlugins

arc58_addNamedPlugin ==
  /\ Calls("arc58_addNamedPlugin")
  /\ IF /\ Authorized(Txn)
        /\ addNamedPluginAllowed(Sender(Txn), Txn.name)
     THEN /\ namedPlugins' = BoxPut(namedPlugins, Txn.name,
                                    PluginsKey(Txn.plugin, Txn.allowedCaller))
          /\ plugins' = pluginsAfterAdd(Txn)
          /\ authAddr' = AuthAfterHeader(Txn)
          /\ Advance
          /\ UNCHANGED <<version, factoryApp, admin, controlledAddress, revocationApp,
                         passkeys>>
     ELSE Reject

\* as pluginsAfterRemoveNamed, but the entry stays
pluginsAfterRemoveNamed_KeepsEntry(name) == plugins

\* the plugins box map after arc58_removeNamedPlugin deleted the entry the
\* name pointed to
pluginsAfterRemoveNamed(name) == BoxDelete(plugins, namedPlugins[name])

arc58_removeNamedPlugin ==
  /\ Calls("arc58_removeNamedPlugin")
  /\ IF /\ Authorized(Txn)
        /\ (isAdmin(Sender(Txn)) \/ canRevoke(Sender(Txn)))
        /\ Txn.name \in DOMAIN namedPlugins
     THEN /\ namedPlugins' = BoxDelete(namedPlugins, Txn.name)
          /\ plugins' = pluginsAfterRemoveNamed(Txn.name)
          /\ authAddr' = AuthAfterHeader(Txn)
          /\ Advance
          /\ UNCHANGED <<version, factoryApp, admin, controlledAddress, revocationApp,
                         passkeys>>
     ELSE Reject

(***************************************************************************)
(* Creation.  The factory mints the account with Alice as admin; the       *)
(* controlled address is the app's own account (ZeroAddress given) or an   *)
(* external account, which its owner has rekeyed to the app.               *)
(***************************************************************************)
\* the two assertions of createApplication
createApplicationAllowed(controlled, adminArg, callerApplicationID) ==
  /\ adminArg # controlled
  /\ callerApplicationID # NoApp

\* controlledAddress === Address.zeroAddress ? this.app.address : controlledAddress
controlledAddressFor(controlled) ==
  IF controlled = ZeroAddress THEN AppAddress ELSE controlled

\* globals.callerApplicationID: the application whose inner transaction
\* the call is, AppID.fromUint64(0) for a top-level call
callerApplicationID(t) == IF t.applicationID = ThisApp THEN NoApp ELSE t.applicationID

\* the application exists: createApplication ran and wrote its state
Created == factoryApp # NoApp

\* The application call that creates the app; it runs once, when the
\* application does not exist yet.
createApplication ==
  /\ Calls("createApplication")
  /\ IF /\ Authorized(Txn)
        /\ ~Created
        /\ createApplicationAllowed(Txn.controlled, Txn.addr, callerApplicationID(Txn))
     THEN /\ version' = Txn.version
          /\ factoryApp' = callerApplicationID(Txn)
          /\ admin' = Txn.addr
          /\ revocationApp' = Txn.plugin
          /\ controlledAddress' = controlledAddressFor(Txn.controlled)
          /\ Advance
          /\ UNCHANGED <<plugins, passkeys, namedPlugins, authAddr>>
     ELSE Reject

\* Before creation: no state is written, and no account is rekeyed.
InitCreate ==
  /\ version = ""
  /\ factoryApp = NoApp
  /\ admin = ZeroAddress
  /\ revocationApp = NoApp
  /\ controlledAddress = ZeroAddress
  /\ plugins = << >>
  /\ passkeys = << >>
  /\ namedPlugins = << >>
  /\ authAddr = ZeroAddress
  /\ round = 1
  /\ txnGroup = << >>
  /\ groupIndex = 1
  /\ committed =
       [version |-> "", factoryApp |-> NoApp, admin |-> ZeroAddress,
        controlledAddress |-> ZeroAddress, revocationApp |-> NoApp,
        plugins |-> << >>, passkeys |-> << >>, namedPlugins |-> << >>,
        authAddr |-> ZeroAddress]
  /\ outcome = "none"
  /\ batches = 0

Init ==
  \E controlled \in {ZeroAddress, ExtAddress} :
    /\ createApplicationAllowed(controlled, Alice, FactoryApp)
    /\ version = "v1"
    /\ factoryApp = FactoryApp
    /\ admin = Alice
    /\ revocationApp = RevokerApp
    /\ controlledAddress = controlledAddressFor(controlled)
    /\ plugins = << >>
    /\ passkeys = << >>
    /\ namedPlugins = << >>
    /\ authAddr = (IF controlled = ZeroAddress THEN ZeroAddress ELSE AppAddress)
    /\ round = 1
    /\ txnGroup = << >>
    /\ groupIndex = 1
    /\ committed =
         [version |-> "v1", factoryApp |-> FactoryApp, admin |-> Alice,
          controlledAddress |-> controlledAddressFor(controlled),
          revocationApp |-> RevokerApp, plugins |-> << >>, passkeys |-> << >>,
          namedPlugins |-> << >>,
          authAddr |-> (IF controlled = ZeroAddress THEN ZeroAddress ELSE AppAddress)]
    /\ outcome = "none"
    /\ batches = 0

(***************************************************************************)
(* Transactions the specifications draw their groups from.                 *)
(***************************************************************************)
AddPlugin(sender, plugin, caller, lastValidRound, cooldown, adminPrivileges) ==
  [Call(sender, "arc58_addPlugin") EXCEPT
     !.plugin = plugin, !.allowedCaller = caller, !.lastValidRound = lastValidRound,
     !.cooldown = cooldown, !.adminPrivileges = adminPrivileges]

AddPasskey(sender, plugin, caller, domain) ==
  [AddPlugin(sender, plugin, caller, 1000, 0, FALSE) EXCEPT
     !.isPasskey = TRUE, !.domain = domain]

AddNamedPlugin(sender, name, plugin, caller, lastValidRound, cooldown, adminPrivileges) ==
  [Call(sender, "arc58_addNamedPlugin") EXCEPT
     !.name = name, !.plugin = plugin, !.allowedCaller = caller,
     !.lastValidRound = lastValidRound, !.cooldown = cooldown,
     !.adminPrivileges = adminPrivileges]

RemovePlugin(sender, plugin, caller) ==
  [Call(sender, "arc58_removePlugin") EXCEPT !.plugin = plugin, !.allowedCaller = caller]

RemoveNamedPlugin(sender, name) ==
  [Call(sender, "arc58_removeNamedPlugin") EXCEPT !.name = name]

RekeyTo(sender, addr) == [Call(sender, "arc58_rekeyTo") EXCEPT !.addr = addr]

RekeyToPlugin(sender, plugin) ==
  [Call(sender, "arc58_rekeyToPlugin") EXCEPT !.plugin = plugin]

RekeyToNamedPlugin(sender, name) ==
  [Call(sender, "arc58_rekeyToNamedPlugin") EXCEPT !.name = name]

VerifyAuthAddr(sender) == Call(sender, "arc58_verifyAuthAddr")

ChangeAdmin(sender, newAdmin) ==
  [Call(sender, "arc58_changeAdmin") EXCEPT !.addr = newAdmin]

\* the plugin rekeys the controlled address to `addr`
PluginRekey(plugin, addr) == [Inner(plugin, "rekey") EXCEPT !.addr = addr]

\* the plugin calls arc58_pluginChangeAdmin(plugin, allowedCaller, newAdmin)
PluginChangeAdmin(app, plugin, caller, newAdmin) ==
  [Inner(app, "arc58_pluginChangeAdmin") EXCEPT
     !.plugin = plugin, !.allowedCaller = caller, !.addr = newAdmin]

\* every group of 1..n transactions of `txns`
GroupsOf(txns, n) == UNION {[1..k -> txns] : k \in 1..n}

(***************************************************************************)
(* SpecFlash: flash rekeys.  Groups of up to MaxGroup transactions made of *)
(* the admin's and a user's calls, a plugin's rekeys of the controlled     *)
(* address, and transactions an outside key holder signs as the controlled *)
(* address while it holds the authority.                                   *)
(***************************************************************************)
FlashTxns ==
  { AddPlugin(Alice, Plugin1, ZeroAddress, 1000, 0, FALSE),
    AddNamedPlugin(Alice, "optIn", Plugin1, ZeroAddress, 1000, 0, FALSE),
    ChangeAdmin(Alice, controlledAddress),
    RekeyTo(Alice, Bob),
    RekeyToPlugin(Bob, Plugin1),
    RekeyToNamedPlugin(Bob, "optIn"),
    VerifyAuthAddr(Bob),
    PluginRekey(Plugin1, AppAddress),
    PluginRekey(Plugin1, Bob),
    Pay(controlledAddress, Bob, controlledAddress),
    Pay(controlledAddress, Bob, AppAddress),
    [RekeyToPlugin(controlledAddress, Plugin1) EXCEPT
       !.signer = Bob, !.rekeyTo = controlledAddress],
    [RekeyTo(controlledAddress, Bob) EXCEPT
       !.signer = Bob, !.rekeyTo = controlledAddress] }

SubmitFlash == SubmitGroup(GroupsOf(FlashTxns, MaxGroup), TRUE)

NextFlash ==
  \/ SubmitFlash
  \/ Commit
  \/ Payment
  \/ InnerRekey
  \/ arc58_addPlugin
  \/ arc58_addNamedPlugin
  \/ arc58_changeAdmin
  \/ arc58_rekeyTo
  \/ arc58_rekeyToPlugin
  \/ arc58_rekeyToNamedPlugin
  \/ arc58_verifyAuthAddr

SpecFlash == Init /\ [][NextFlash]_vars

(***************************************************************************)
(* SpecGrant: expiry, cooldown and the wildcard entry.  The admin          *)
(* registers plugin1 for the wildcard caller and for Bob with every        *)
(* cooldown up to MaxCooldown and an expiry at ExpiryRound or far away;    *)
(* Alice and Bob use the plugin in groups that hand the account back; the  *)
(* round moves on to MaxRound.                                             *)
(***************************************************************************)
GrantAdds ==
  { AddPlugin(Alice, Plugin1, caller, lastValidRound, cooldown, FALSE) :
      caller \in {ZeroAddress, Bob},
      lastValidRound \in {ExpiryRound, 1000},
      cooldown \in 0..MaxCooldown }

\* the group of the repository's tests: rekey to the plugin, the plugin's
\* call (which hands the account back), arc58_verifyAuthAddr
UsePlugin(sender, plugin) ==
  <<RekeyToPlugin(sender, plugin), PluginRekey(plugin, AppAddress), VerifyAuthAddr(sender)>>

GrantGroups ==
  {<<t>> : t \in GrantAdds} \cup {UsePlugin(Alice, Plugin1), UsePlugin(Bob, Plugin1)}

SubmitGrant == SubmitGroup(GrantGroups, FALSE)

NextRoundGrant == NextRound(MaxRound)

NextGrant ==
  \/ SubmitGrant
  \/ NextRoundGrant
  \/ Commit
  \/ InnerRekey
  \/ arc58_addPlugin
  \/ arc58_rekeyToPlugin
  \/ arc58_verifyAuthAddr

SpecGrant == Init /\ [][NextGrant]_vars

(***************************************************************************)
(* SpecScenario: one wildcard entry for plugin1 that expires at round 1000 *)
(* and has a cooldown of 5 rounds, used by Bob in rounds up to             *)
(* ScenarioMaxRound.                                                       *)
(***************************************************************************)
ScenarioGroups ==
  { <<AddPlugin(Alice, Plugin1, ZeroAddress, 1000, 5, FALSE)>>, UsePlugin(Bob, Plugin1) }

SubmitScenario == SubmitGroup(ScenarioGroups, FALSE)

NextRoundScenario == NextRound(ScenarioMaxRound)

NextScenario ==
  \/ SubmitScenario
  \/ NextRoundScenario
  \/ Commit
  \/ InnerRekey
  \/ arc58_addPlugin
  \/ arc58_rekeyToPlugin
  \/ arc58_verifyAuthAddr

SpecScenario == Init /\ [][NextScenario]_vars

(***************************************************************************)
(* SpecAdmin: a plugin changing the admin.  The admin registers plugin1    *)
(* for the wildcard caller and for Bob, with and without admin privileges; *)
(* Bob rekeys the account to plugin1, and plugin1 or plugin2 calls         *)
(* arc58_pluginChangeAdmin while plugin1 holds the account, after it gave  *)
(* it back, or without any rekey; Bob also calls the method himself.       *)
(***************************************************************************)
AdminAdds ==
  { AddPlugin(Alice, Plugin1, caller, 1000, 0, adminPrivileges) :
      caller \in {ZeroAddress, Bob}, adminPrivileges \in BOOLEAN }

AdminChanges ==
  { PluginChangeAdmin(app, plugin, caller, Bob) :
      app \in {Plugin1, Plugin2}, plugin \in {Plugin1, Plugin2},
      caller \in {ZeroAddress, Bob} }
  \cup
  { [Call(Bob, "arc58_pluginChangeAdmin") EXCEPT
       !.plugin = Plugin1, !.allowedCaller = caller, !.addr = Bob] :
      caller \in {ZeroAddress, Bob} }

AdminGroups ==
  {<<t>> : t \in AdminAdds \cup AdminChanges}
  \cup
  { <<RekeyToPlugin(Bob, Plugin1), t, PluginRekey(Plugin1, AppAddress), VerifyAuthAddr(Bob)>> :
      t \in AdminChanges }
  \cup
  { <<RekeyToPlugin(Bob, Plugin1), PluginRekey(Plugin1, AppAddress), t, VerifyAuthAddr(Bob)>> :
      t \in AdminChanges }

SubmitAdmin == SubmitGroup(AdminGroups, FALSE)

NextAdmin ==
  \/ SubmitAdmin
  \/ Commit
  \/ InnerRekey
  \/ arc58_addPlugin
  \/ arc58_rekeyToPlugin
  \/ arc58_pluginChangeAdmin
  \/ arc58_verifyAuthAddr

SpecAdmin == Init /\ [][NextAdmin]_vars

(***************************************************************************)
(* SpecNames: named plugins.  The admin registers plugin1 for the wildcard *)
(* caller and for Bob, with a name or without; the admin, Bob and the      *)
(* revocation app remove entries by key and by name; Bob uses the plugin   *)
(* by id and by name; the round moves on to MaxRound.                      *)
(***************************************************************************)
Names == {"optIn", "swap"}

\* the revocation app calls `method` of this app
Revoker(method) == Inner(RevokerApp, method)

NameTxns ==
  { AddPlugin(Alice, Plugin1, caller, 1000, 0, FALSE) : caller \in {ZeroAddress, Bob} }
  \cup
  { AddNamedPlugin(Alice, name, Plugin1, caller, 1000, 0, FALSE) :
      name \in Names, caller \in {ZeroAddress, Bob} }
  \cup
  { RemovePlugin(sender, Plugin1, caller) :
      sender \in {Alice, Bob}, caller \in {ZeroAddress, Bob} }
  \cup
  { [Revoker("arc58_removePlugin") EXCEPT !.plugin = Plugin1, !.allowedCaller = caller] :
      caller \in {ZeroAddress, Bob} }
  \cup
  { RemoveNamedPlugin(sender, name) : sender \in {Alice, Bob}, name \in Names }
  \cup
  { [Revoker("arc58_removeNamedPlugin") EXCEPT !.name = name] : name \in Names }

UseNamedPlugin(sender, name) ==
  <<RekeyToNamedPlugin(sender, name), PluginRekey(Plugin1, AppAddress), VerifyAuthAddr(sender)>>

NameGroups ==
  {<<t>> : t \in NameTxns}
  \cup {UsePlugin(Bob, Plugin1)}
  \cup {UseNamedPlugin(Bob, name) : name \in Names}

SubmitNames == SubmitGroup(NameGroups, FALSE)

NextRoundNames == NextRound(MaxRound)

NextNames ==
  \/ SubmitNames
  \/ NextRoundNames
  \/ Commit
  \/ InnerRekey
  \/ arc58_addPlugin
  \/ arc58_addNamedPlugin
  \/ arc58_removePlugin
  \/ arc58_removeNamedPlugin
  \/ arc58_rekeyToPlugin
  \/ arc58_rekeyToNamedPlugin
  \/ arc58_verifyAuthAddr

SpecNames == Init /\ [][NextNames]_vars

(***************************************************************************)
(* SpecRoles: who may do what.  The admin binds Bob to the akita domain or *)
(* to another one, and registers the revocation app as a plugin with admin *)
(* privileges; Alice, Bob and the revocation app call every method that    *)
(* asserts isAdmin and the two removals; the revocation app, while it      *)
(* holds the account as a plugin, changes the admin and rekeys the account *)
(* back.                                                                   *)
(***************************************************************************)
ChangeRevocationApp(sender, app) ==
  [Call(sender, "changeRevocationApp") EXCEPT !.plugin = app]

UpdateApplication(sender, newVersion) ==
  [Call(sender, "updateApplication") EXCEPT !.version = newVersion]

\* application `app` makes the call t in an inner transaction
CalledBy(app, t) == [t EXCEPT !.sender = Bob, !.signer = Bob, !.applicationID = app]

\* application `app`, called by Bob, sends `group` as one inner group
InnerGroup(app, group) == [j \in 1..Len(group) |-> [group[j] EXCEPT !.via = app]]

\* the revocation app rekeys the account to plugin1 under an entry that
\* allows it, calls plugin1, which rekeys the account back, and calls
\* arc58_verifyAuthAddr
RevokerUsesPlugin ==
  InnerGroup(RevokerApp,
             <<CalledBy(RevokerApp, RekeyToPlugin(Bob, Plugin1)),
               PluginRekey(Plugin1, AppAddress),
               CalledBy(RevokerApp, VerifyAuthAddr(Bob))>>)

\* the methods that assert isAdmin
AdminOnly ==
  {"updateApplication", "changeRevocationApp", "arc58_changeAdmin", "arc58_rekeyTo",
   "arc58_addPlugin", "arc58_addNamedPlugin"}

RoleOps(sender) ==
  { AddPlugin(sender, Plugin1, ZeroAddress, 1000, 0, FALSE),
    AddNamedPlugin(sender, "optIn", Plugin1, ZeroAddress, 1000, 0, FALSE),
    ChangeRevocationApp(sender, Plugin2),
    UpdateApplication(sender, "v2"),
    RemovePlugin(sender, Plugin1, ZeroAddress),
    RemoveNamedPlugin(sender, "optIn") }
  \cup { ChangeAdmin(sender, newAdmin) : newAdmin \in {Alice, Bob, ZeroAddress} }

\* arc58_rekeyTo(Bob) called as t, Bob's rekey back to the app, arc58_verifyAuthAddr
RekeyToAndBack(t) ==
  <<t, Pay(controlledAddress, Bob, AppAddress), VerifyAuthAddr(Bob)>>

RoleGroups ==
  {<<t>> : t \in RoleOps(Alice) \cup RoleOps(Bob)}
  \cup {<<CalledBy(RevokerApp, t)>> : t \in RoleOps(Bob)}
  \cup {<<AddPasskey(Alice, Plugin2, Bob, domain)>> : domain \in {AkitaDomain, OtherDomain, ""}}
  \cup {<<AddPlugin(Alice, RevokerApp, ZeroAddress, 1000, 0, TRUE)>>}
  \cup {<<RemovePlugin(Alice, Plugin2, Bob)>>,
        <<CalledBy(RevokerApp, RemovePlugin(Bob, Plugin2, Bob))>>}
  \cup { RekeyToAndBack(t) :
           t \in {RekeyTo(Alice, Bob), RekeyTo(Bob, Bob), CalledBy(RevokerApp, RekeyTo(Bob, Bob))} }
  \cup { <<RekeyToPlugin(Bob, RevokerApp),
           PluginChangeAdmin(RevokerApp, RevokerApp, ZeroAddress, Bob),
           PluginRekey(RevokerApp, AppAddress), VerifyAuthAddr(Bob)>>,
         <<RekeyToPlugin(Bob, RevokerApp),
           PluginRekey(RevokerApp, AppAddress), VerifyAuthAddr(Bob)>>,
         RevokerUsesPlugin }

SubmitRoles == SubmitGroup(RoleGroups, FALSE)

NextRoles ==
  \/ SubmitRoles
  \/ Commit
  \/ Payment
  \/ InnerRekey
  \/ updateApplication
  \/ changeRevocationApp
  \/ arc58_changeAdmin
  \/ arc58_pluginChangeAdmin
  \/ arc58_rekeyTo
  \/ arc58_rekeyToPlugin
  \/ arc58_addPlugin
  \/ arc58_addNamedPlugin
  \/ arc58_removePlugin
  \/ arc58_removeNamedPlugin
  \/ arc58_verifyAuthAddr

SpecRoles == Init /\ [][NextRoles]_vars

(***************************************************************************)
(* SpecCreate: creation.  The app is created by the factory's mint or by a *)
(* top-level call, for the app's own account (ZeroAddress given) or an     *)
(* external account, with any of the addresses as admin; the external      *)
(* account's owner rekeys it to the app; Alice and Bob change the admin.   *)
(***************************************************************************)
\* AbstractedAccountFactory.mint(controlledAddress, admin)
Mint(controlled, adminArg) ==
  [Inner(FactoryApp, "createApplication") EXCEPT
     !.version = "v1", !.controlled = controlled, !.addr = adminArg,
     !.plugin = RevokerApp]

\* the same call made at top level, by Bob
CreateDirectly(controlled, adminArg) ==
  [Call(Bob, "createApplication") EXCEPT
     !.version = "v1", !.controlled = controlled, !.addr = adminArg,
     !.plugin = RevokerApp]

CreateTxns ==
  { Mint(controlled, adminArg) :
      controlled \in {ZeroAddress, ExtAddress},
      adminArg \in {Alice, Bob, AppAddress, ExtAddress, ZeroAddress} }
  \cup
  { CreateDirectly(controlled, adminArg) :
      controlled \in {ZeroAddress, ExtAddress},
      adminArg \in {Alice, Bob, AppAddress, ExtAddress, ZeroAddress} }
  \cup { ChangeAdmin(sender, newAdmin) : sender \in {Alice, Bob}, newAdmin \in {Alice, Bob} }
  \cup { Pay(ExtAddress, ExtAddress, AppAddress), VerifyAuthAddr(Bob) }

SubmitCreate == SubmitGroup({<<t>> : t \in CreateTxns}, FALSE)

NextCreate ==
  \/ SubmitCreate
  \/ Commit
  \/ Payment
  \/ createApplication
  \/ arc58_changeAdmin
  \/ arc58_verifyAuthAddr

SpecCreate == InitCreate /\ [][NextCreate]_vars

(***************************************************************************)
(* SpecFrame: what a rekey to a plugin leaves alone.  As SpecGrant, with   *)
(* cooldowns 0 and MaxCooldown only, and with a named entry and a passkey  *)
(* of another plugin registered beside the entries of plugin1.             *)
(***************************************************************************)
FrameAdds ==
  { AddPlugin(Alice, Plugin1, caller, lastValidRound, cooldown, FALSE) :
      caller \in {ZeroAddress, Bob},
      lastValidRound \in {ExpiryRound, 1000},
      cooldown \in {0, MaxCooldown} }
  \cup
  { AddNamedPlugin(Alice, "optIn", Plugin2, Bob, 1000, 0, FALSE),
    AddPasskey(Alice, Plugin2, Bob, OtherDomain) }

FrameGroups ==
  {<<t>> : t \in FrameAdds} \cup {UsePlugin(Alice, Plugin1), UsePlugin(Bob, Plugin1)}

SubmitFrame == SubmitGroup(FrameGroups, FALSE)

NextRoundFrame == NextRound(MaxRound)

NextFrame ==
  \/ SubmitFrame
  \/ NextRoundFrame
  \/ Commit
  \/ InnerRekey
  \/ arc58_addPlugin
  \/ arc58_addNamedPlugin
  \/ arc58_rekeyToPlugin
  \/ arc58_verifyAuthAddr

SpecFrame == Init /\ [][NextFrame]_vars

(***************************************************************************)
(* SpecCooldown: repeated use of one entry.  The admin registers the       *)
(* wildcard entry and Bob's entry of plugin1 with cooldowns of 0 to        *)
(* MaxCooldown rounds, and the name "optIn" for Bob's entry; Bob uses the  *)
(* plugin by application and by name, once or twice in a group, in rounds  *)
(* up to MaxRound.                                                         *)
(***************************************************************************)
CooldownAdds ==
  { AddPlugin(Alice, Plugin1, caller, 1000, cooldown, FALSE) :
      caller \in {ZeroAddress, Bob}, cooldown \in 0..MaxCooldown }
  \cup
  { AddNamedPlugin(Alice, "optIn", Plugin1, Bob, 1000, MaxCooldown, FALSE) }

\* two uses of the plugin in one group
UseTwice(sender, plugin) ==
  <<RekeyToPlugin(sender, plugin), PluginRekey(plugin, AppAddress),
    RekeyToPlugin(sender, plugin), PluginRekey(plugin, AppAddress),
    VerifyAuthAddr(sender)>>

CooldownGroups ==
  {<<t>> : t \in CooldownAdds}
  \cup {UsePlugin(Bob, Plugin1), UseNamedPlugin(Bob, "optIn"), UseTwice(Bob, Plugin1)}

SubmitCooldown == SubmitGroup(CooldownGroups, FALSE)

NextRoundCooldown == NextRound(MaxRound)

NextCooldown ==
  \/ SubmitCooldown
  \/ NextRoundCooldown
  \/ Commit
  \/ InnerRekey
  \/ arc58_addPlugin
  \/ arc58_addNamedPlugin
  \/ arc58_rekeyToPlugin
  \/ arc58_rekeyToNamedPlugin
  \/ arc58_verifyAuthAddr

SpecCooldown == Init /\ [][NextCooldown]_vars

(***************************************************************************)
(* Vocabulary of the claims.                                               *)
(***************************************************************************)
\* every transaction of the group was evaluated and none failed
ReadyToCommit == ~Idle /\ groupIndex = Len(txnGroup) + 1

\* a top-level call of one of `methods` on this app
IsCallOf(t, methods) ==
  /\ t.typeEnum = "appl"
  /\ t.applicationID = ThisApp
  /\ t.method \in methods

\* an explicit rekey back to the controlled address or a call of arc58_verifyAuthAddr
IsReversal(t) == IsExplicitRekeyBack(t) \/ IsVerifyAuthAddrCall(t)

\* some transaction after position i of the group is a reversal
ReversalAfter(i) == \E j \in (i + 1)..Len(txnGroup) : IsReversal(txnGroup[j])

(***************************************************************************)
(* C1.  After every group that commits, the controlled account's auth      *)
(* address is the one getAuthAddr() returns: no rekey made by              *)
(* arc58_rekeyTo, arc58_rekeyToPlugin or arc58_rekeyToNamedPlugin          *)
(* outlives its group.  Checked under SpecFlash, where it fails.           *)
(***************************************************************************)
C1_AuthReturnsByEndOfGroup == outcome = "committed" => authAddr = getAuthAddr

(***************************************************************************)
(* C2.  A group that calls arc58_rekeyToPlugin or arc58_rekeyToNamedPlugin *)
(* and has no reversal (explicit rekey back, arc58_verifyAuthAddr call) at *)
(* a later position never gets all its transactions through, so it is      *)
(* rejected as a whole.  Checked under SpecFlash, where it fails.          *)
(***************************************************************************)
C2_PluginRekeyNeedsLaterReversal ==
  ReadyToCommit =>
    \A i \in 1..Len(txnGroup) :
       IsCallOf(txnGroup[i], {"arc58_rekeyToPlugin", "arc58_rekeyToNamedPlugin"})
         => ReversalAfter(i)

(***************************************************************************)
(* C3.  arc58_rekeyTo(addr) succeeds only for a sender that passes         *)
(* isAdmin, leaves the controlled account rekeyed to addr, and its group   *)
(* gets through only if a later transaction of the group is a reversal.    *)
(* Checked under SpecFlash, where the last part fails.                     *)
(***************************************************************************)
C3_RekeyToNeedsAdminAndLaterReversal ==
  [][ ( /\ Running
        /\ IsCallOf(Txn, {"arc58_rekeyTo"})
        /\ groupIndex' = groupIndex + 1 )
      => ( /\ isAdmin(Txn.sender)
           /\ authAddr' = RekeyedAuth(controlledAddress, Txn.addr)
           /\ ReversalAfter(groupIndex) ) ]_vars

\* the step evaluates a top-level call of arc58_rekeyToPlugin
UsesPlugin == Running /\ IsCallOf(Txn, {"arc58_rekeyToPlugin"})

\* the contract holds the controlled account's authority and a later
\* transaction of the group hands it back
CanHandOver == authAddr = getAuthAddr /\ ReversalAfter(groupIndex)

Accepted == groupIndex' = groupIndex + 1

Rejected == outcome' = "rejected" /\ txnGroup' = <<>>

WildKey(plugin) == PluginsKey(plugin, ZeroAddress)

(***************************************************************************)
(* C4.  A call of arc58_rekeyToPlugin whose sender has an unexpired entry  *)
(* with cooldown c and lastCalled h, while the wildcard entry does not     *)
(* allow the call, is accepted if and only if round - h >= c (in a group   *)
(* that hands the account back).  Checked under SpecGrant.                 *)
(***************************************************************************)
C4_CooldownDecidesTheCall ==
  [][ ( /\ UsesPlugin
        /\ CanHandOver
        /\ ~globalAllowed(Txn.plugin)
        /\ PluginsKey(Txn.plugin, Txn.sender) \in DOMAIN plugins
        /\ plugins[PluginsKey(Txn.plugin, Txn.sender)].lastValidRound >= round )
      => LET info == plugins[PluginsKey(Txn.plugin, Txn.sender)] IN
           /\ info.lastCalled <= round
           /\ Accepted <=> (round - info.lastCalled >= info.cooldown)
           /\ ~Accepted => Rejected ]_vars

\* Bob used his own entry, which has a cooldown and was used before, again
C4_Witness ==
  LET key == PluginsKey(Plugin1, Bob) IN
    /\ groupIndex = 2
    /\ txnGroup = UsePlugin(Bob, Plugin1)
    /\ DOMAIN plugins = {key}
    /\ plugins[key].cooldown >= 1
    /\ plugins[key].lastCalled = round
    /\ committed.plugins[key].lastCalled > 0

(***************************************************************************)
(* C5.  pluginCallAllowed is false for every entry whose lastValidRound is *)
(* below the round, whatever its cooldown and lastCalled; in the round     *)
(* equal to lastValidRound the entry is allowed when its cooldown is over. *)
(* Checked under SpecGrant.                                                *)
(***************************************************************************)
C5_ExpiryIsLastUsableRound ==
  \A key \in DOMAIN plugins :
     /\ round > plugins[key].lastValidRound
          => ~pluginCallAllowed(key.application, key.allowedCaller)
     /\ ( /\ round = plugins[key].lastValidRound
          /\ round - plugins[key].lastCalled >= plugins[key].cooldown )
          => pluginCallAllowed(key.application, key.allowedCaller)

\* a group that used an expired entry whose cooldown was over was rejected
C5_Witness ==
  LET key == PluginsKey(Plugin1, Bob) IN
    /\ outcome = "rejected"
    /\ DOMAIN plugins = {key}
    /\ round > plugins[key].lastValidRound
    /\ round - plugins[key].lastCalled >= plugins[key].cooldown

(***************************************************************************)
(* C6.  The scenario as the specification states it: an entry with expiry  *)
(* 1000, cooldown 5 and lastCalled 0 is used in round 3 with success, in   *)
(* round 4 without (cooldown), in round 8 with success again.  Checked     *)
(* under SpecScenario, where the use in round 3 is rejected.               *)
(***************************************************************************)
C6_ScenarioAsStated ==
  [][ (UsesPlugin /\ CanHandOver /\ WildKey(Txn.plugin) \in DOMAIN plugins)
      => LET lastCalled == plugins[WildKey(Txn.plugin)].lastCalled IN
           /\ (round = 3 /\ lastCalled = 0) => Accepted
           /\ (round = 4 /\ lastCalled = 3) => Rejected
           /\ (round = 8 /\ lastCalled = 3) => Accepted ]_vars

(***************************************************************************)
(* C6, amended.  With the same entry, the use in round 3 is rejected       *)
(* (3 - 0 < 5), the use in round 4 is rejected for the same reason, and    *)
(* the use in round 8 is accepted (8 - 0 >= 5) and sets lastCalled to 8.   *)
(***************************************************************************)
C6_ScenarioAmended ==
  [][ (UsesPlugin /\ CanHandOver /\ WildKey(Txn.plugin) \in DOMAIN plugins)
      => LET lastCalled == plugins[WildKey(Txn.plugin)].lastCalled IN
           /\ (round = 3 /\ lastCalled = 0) => Rejected
           /\ (round = 4 /\ lastCalled = 0) => Rejected
           /\ (round = 8 /\ lastCalled = 0)
                => Accepted /\ plugins'[WildKey(Txn.plugin)].lastCalled = 8 ]_vars

\* the entry, never used before, was used in round 8
C6_Witness ==
  /\ round = 8
  /\ groupIndex = 2
  /\ txnGroup = UsePlugin(Bob, Plugin1)
  /\ plugins[WildKey(Plugin1)].lastCalled = 8
  /\ committed.plugins[WildKey(Plugin1)].lastCalled = 0

(***************************************************************************)
(* C7.  While the wildcard entry of a plugin allows the call,              *)
(* arc58_rekeyToPlugin is accepted from any sender (in a group that hands  *)
(* the account back), the wildcard entry's lastCalled becomes the round,   *)
(* and every other entry, the sender's own included, is left as it was.    *)
(* Checked under SpecGrant.                                                *)
(***************************************************************************)
C7_WildcardEntryIsTheOneUsed ==
  [][ (UsesPlugin /\ CanHandOver /\ globalAllowed(Txn.plugin))
      => /\ Accepted
         /\ authAddr' = AppAddr(Txn.plugin)
         /\ DOMAIN plugins' = DOMAIN plugins
         /\ plugins'[WildKey(Txn.plugin)] =
              [plugins[WildKey(Txn.plugin)] EXCEPT !.lastCalled = round]
         /\ \A key \in DOMAIN plugins \ {WildKey(Txn.plugin)} :
              plugins'[key] = plugins[key] ]_vars

\* Bob, whose own entry allowed the call too, was served by the wildcard entry
C7_Witness ==
  LET own == PluginsKey(Plugin1, Bob) IN
    /\ groupIndex = 2
    /\ txnGroup = UsePlugin(Bob, Plugin1)
    /\ DOMAIN plugins = {own, WildKey(Plugin1)}
    /\ plugins[WildKey(Plugin1)].lastCalled = round
    /\ committed.plugins[WildKey(Plugin1)].lastCalled < round
    /\ plugins[own] = committed.plugins[own]
    /\ plugins[own].lastValidRound >= round
    /\ round - plugins[own].lastCalled >= plugins[own].cooldown
    /\ plugins[own].lastCalled < round

AllKeys == {PluginsKey(Plugin1, caller) : caller \in {ZeroAddress, Bob}}

\* the step is an accepted call of one of `methods` by a sender that passes isAdmin
AcceptedFromAdmin(methods) ==
  /\ Running
  /\ IsCallOf(Txn, methods)
  /\ isAdmin(Sender(Txn))
  /\ Accepted

(***************************************************************************)
(* C9.  An accepted arc58_removeNamedPlugin(name) leaves neither the name  *)
(* nor the entry at the key it pointed to.  While a name is missing,       *)
(* arc58_rekeyToNamedPlugin(name) is rejected; while an entry is missing,  *)
(* no arc58_rekeyToPlugin is served by its key; and, in any round, a       *)
(* missing name or entry comes back only by an accepted arc58_addPlugin or *)
(* arc58_addNamedPlugin of the admin (or by the rejection of the group     *)
(* that removed it).  Checked under SpecNames.                             *)
(***************************************************************************)
C9_RemovedNameAndEntryStayUnusable ==
  [][ /\ (Calls("arc58_removeNamedPlugin") /\ Accepted)
        => /\ Txn.name \in DOMAIN namedPlugins
           /\ Txn.name \notin DOMAIN namedPlugins'
           /\ namedPlugins[Txn.name] \notin DOMAIN plugins'
      /\ (Calls("arc58_rekeyToNamedPlugin") /\ Txn.name \notin DOMAIN namedPlugins)
        => Rejected
      /\ (Calls("arc58_rekeyToPlugin") /\ Accepted)
        => calledKey(Txn.plugin, Sender(Txn)) \in DOMAIN plugins
      /\ (Calls("arc58_rekeyToNamedPlugin") /\ Accepted)
        => calledKey(namedPlugins[Txn.name].application, Sender(Txn)) \in DOMAIN plugins
      /\ \A name \in Names :
           (name \notin DOMAIN namedPlugins /\ name \in DOMAIN namedPlugins')
             => (AcceptedFromAdmin({"arc58_addNamedPlugin"}) \/ Rejected)
      /\ \A key \in AllKeys :
           (key \notin DOMAIN plugins /\ key \in DOMAIN plugins')
             => (AcceptedFromAdmin({"arc58_addPlugin", "arc58_addNamedPlugin"}) \/ Rejected) ]_vars

\* the admin removed the name "optIn", and its entry with it
C9_Witness ==
  /\ groupIndex = 2
  /\ txnGroup = <<RemoveNamedPlugin(Alice, "optIn")>>
  /\ "optIn" \in DOMAIN committed.namedPlugins
  /\ committed.namedPlugins["optIn"] \in DOMAIN committed.plugins
  /\ "optIn" \notin DOMAIN namedPlugins
  /\ committed.namedPlugins["optIn"] \notin DOMAIN plugins

(***************************************************************************)
(* C10.  Between groups, every name of namedPlugins points to a key that   *)
(* has an entry in plugins.  Checked under SpecNames, where it fails.      *)
(***************************************************************************)
C10_EveryNameHasItsEntry ==
  Idle => \A name \in DOMAIN namedPlugins : namedPlugins[name] \in DOMAIN plugins

(***************************************************************************)
(* C11.  arc58_addNamedPlugin with a name that is registered is rejected,  *)
(* whatever its other arguments, and leaves namedPlugins and plugins       *)
(* (lastCalled of the entry the name points to included) as they were      *)
(* before the call.  Checked under SpecNames.                              *)
(***************************************************************************)
C11_RegisteredNameIsNotOverwritten ==
  [][ (Calls("arc58_addNamedPlugin") /\ Txn.name \in DOMAIN namedPlugins)
      => /\ Rejected
         /\ namedPlugins' = namedPlugins
         /\ plugins' = plugins
         /\ Ledger' = committed ]_vars

\* a group was rejected while both names were registered, for different
\* keys, and the entry "optIn" points to had been used
C11_Witness ==
  /\ outcome = "rejected"
  /\ DOMAIN namedPlugins = Names
  /\ namedPlugins["optIn"] # namedPlugins["swap"]
  /\ namedPlugins["optIn"] \in DOMAIN plugins
  /\ plugins[namedPlugins["optIn"]].lastCalled > 0

\* the address is not the admin and has a passkey entry of `domain`
BoundTo(a, domain) ==
  /\ a # admin
  /\ a \in DOMAIN passkeys
  /\ passkeys[a] = domain

\* the step evaluates a top-level call of one of `methods` by `a`, signed by `a`
CallsAs(a, methods) ==
  /\ Running
  /\ IsCallOf(Txn, methods)
  /\ Txn.sender = a
  /\ Txn.signer = a
  /\ Txn.rekeyTo = ZeroAddress

(***************************************************************************)
(* C12.  Once arc58_addPlugin has stored the akita domain for an address   *)
(* C that is not the admin, isAdmin holds for C and each method that       *)
(* asserts isAdmin is accepted from C with its effect (arc58_rekeyTo in a  *)
(* group that hands the account back, arc58_addNamedPlugin for a name not  *)
(* yet registered); with any other domain stored for C, isAdmin does not   *)
(* hold for C and these methods are rejected.  Checked under SpecRoles.    *)
(***************************************************************************)
C12_AkitaPasskeyIsCoAdmin ==
  [][ \A a \in Keyed :
        /\ BoundTo(a, AkitaDomain) =>
             /\ isAdmin(a)
             /\ CallsAs(a, {"updateApplication"})
                  => (Accepted /\ version' = Txn.version)
             /\ CallsAs(a, {"changeRevocationApp"})
                  => (Accepted /\ revocationApp' = Txn.plugin)
             /\ CallsAs(a, {"arc58_changeAdmin"})
                  => (Accepted /\ admin' = Txn.addr)
             /\ (CallsAs(a, {"arc58_rekeyTo"}) /\ CanHandOver)
                  => (Accepted /\ authAddr' = RekeyedAuth(controlledAddress, Txn.addr))
             /\ CallsAs(a, {"arc58_addPlugin"})
                  => ( /\ Accepted
                       /\ PluginsKey(Txn.plugin, Txn.allowedCaller) \in DOMAIN plugins' )
             /\ (CallsAs(a, {"arc58_addNamedPlugin"}) /\ Txn.name \notin DOMAIN namedPlugins)
                  => ( /\ Accepted
                       /\ namedPlugins'[Txn.name] = PluginsKey(Txn.plugin, Txn.allowedCaller)
                       /\ namedPlugins'[Txn.name] \in DOMAIN plugins' )
        /\ (a # admin /\ a \in DOMAIN passkeys /\ passkeys[a] # AkitaDomain) =>
             /\ ~isAdmin(a)
             /\ CallsAs(a, AdminOnly) => Rejected ]_vars

\* Bob, bound to the akita domain while Alice is the admin, rekeyed the
\* account to himself
C12_Witness ==
  /\ admin = Alice
  /\ BoundTo(Bob, AkitaDomain)
  /\ txnGroup = RekeyToAndBack(RekeyTo(Bob, Bob))
  /\ groupIndex = 2
  /\ authAddr = Bob

\* the parts of the state C13 names: admin, revocation app, auth address,
\* plugins, named plugins and passkeys
Protected == <<admin, revocationApp, authAddr, plugins, namedPlugins, passkeys>>

(***************************************************************************)
(* C13.  A call of a method that asserts isAdmin from a sender that is     *)
(* neither the admin nor bound to the akita domain (isAdmin does not hold) *)
(* is rejected with its group, and admin,                                  *)
(* revocationApp, the auth address, plugins, namedPlugins and passkeys are *)
(* what they were before the call.  Checked under SpecRoles.               *)
(***************************************************************************)
C13_AdminOnlyMethodsRejectOthers ==
  [][ ( /\ Running
        /\ Txn.typeEnum = "appl"
        /\ Txn.method \in AdminOnly
        /\ Sender(Txn) # admin
        /\ ~BoundTo(Sender(Txn), AkitaDomain) )
      => /\ Rejected
         /\ Protected' = Protected
         /\ version' = version
         /\ Ledger' = committed ]_vars

\* a group was rejected while Bob was bound to a domain that is not akita
\* and the revocation app was registered as a plugin
C13_Witness ==
  /\ outcome = "rejected"
  /\ admin = Alice
  /\ BoundTo(Bob, OtherDomain)
  /\ PluginsKey(RevokerApp, ZeroAddress) \in DOMAIN plugins

\* the step evaluates a call of a method of this app by the revocation app,
\* which is neither the admin nor bound to the akita domain
RevokerCalls ==
  /\ Running
  /\ Txn.typeEnum = "appl"
  /\ Txn.method # "rekey"
  /\ Sender(Txn) = AppAddr(revocationApp)
  /\ Sender(Txn) # admin
  /\ ~BoundTo(Sender(Txn), AkitaDomain)

\* the revocation app's removals are accepted
RevokerDeletes ==
  /\ Txn.method = "arc58_removePlugin"
       => (Accepted /\ PluginsKey(Txn.plugin, Txn.allowedCaller) \notin DOMAIN plugins')
  /\ (Txn.method = "arc58_removeNamedPlugin" /\ Txn.name \in DOMAIN namedPlugins)
       => (Accepted /\ Txn.name \notin DOMAIN namedPlugins')

C15_LastCalledNeverDecreases ==
  [][ \A key \in DOMAIN committed.plugins \cap DOMAIN committed'.plugins :
        committed'.plugins[key].lastCalled >= committed.plugins[key].lastCalled ]_vars

(***************************************************************************)
(* C16.  createApplication is rejected, and leaves the application without *)
(* state, when the admin given is the address the app will control (the    *)
(* app's own address when ZeroAddress is given as controlledAddress) and   *)
(* when the call is not an inner transaction of an application.  Checked   *)
(* under SpecCreate, where the case of ZeroAddress with the app's own      *)
(* address as admin fails.                                                 *)
(***************************************************************************)
C16_CreateRejectsAdminEqualToControlled ==
  [][ ( /\ Calls("createApplication")
        /\ ~Created
        /\ \/ Txn.addr = controlledAddressFor(Txn.controlled)
           \/ callerApplicationID(Txn) = NoApp )
      => /\ Rejected
         /\ ~Created'
         /\ Ledger' = Ledger ]_vars

(***************************************************************************)
(* C17.  In every committed state the admin is an address other than the   *)
(* zero address, whatever newAdmin arc58_changeAdmin and                   *)
(* arc58_pluginChangeAdmin were called with.  Checked under SpecRoles,     *)
(* where arc58_changeAdmin(ZeroAddress) fails it.                          *)
(***************************************************************************)
C17_AdminIsNeverEmpty == committed.admin # ZeroAddress

\* the step evaluates a call of one of the three methods that rekey the
\* account and then run verifyRekeyToAbstractedAccount
Delegates ==
  /\ Running
  /\ Txn.typeEnum = "appl"
  /\ Txn.method \in {"arc58_rekeyTo", "arc58_rekeyToPlugin", "arc58_rekeyToNamedPlugin"}

(***************************************************************************)
(* C18.  When arc58_rekeyTo, arc58_rekeyToPlugin or                        *)
(* arc58_rekeyToNamedPlugin is accepted, so that                           *)
(* verifyRekeyToAbstractedAccount passed in it, the group the call sees    *)
(* holds an explicit rekey back or an arc58_verifyAuthAddr call at a       *)
(* position after the call's own.  Checked under SpecFlash, where a call   *)
(* that has the shape of an explicit rekey back itself fails it.           *)
(***************************************************************************)
C18_ReversalIsStrictlyLater ==
  [][ (Delegates /\ Accepted)
      => \E i \in (ThisIndex + 1)..Len(ThisGroup) :
            IsExplicitRekeyBack(ThisGroup[i]) \/ IsVerifyAuthAddrCall(ThisGroup[i]) ]_vars

(***************************************************************************)
(* C19.  A payment that verifyRekeyToAbstractedAccount takes for an        *)
(* explicit rekey back (sender and rekeyTo both the controlled address)    *)
(* leaves, when it is executed, the auth address getAuthAddr() returns,    *)
(* for the app's own account and for an external one.  Checked under       *)
(* SpecFlash, where it fails for the external account.                     *)
(***************************************************************************)
C19_ExplicitRekeyBackRestoresAuthAddr ==
  [][ (Running /\ Txn.typeEnum = "pay" /\ IsExplicitRekeyBack(Txn) /\ Accepted)
      => authAddr' = getAuthAddr ]_vars

\* the entry at `key` exists, is not expired and is out of its cooldown
Active(key) ==
  /\ key \in DOMAIN plugins
  /\ round <= plugins[key].lastValidRound
  /\ round - plugins[key].lastCalled >= plugins[key].cooldown

(***************************************************************************)
(* C20.  arc58_rekeyToPlugin(plugin) from sender X while the wildcard      *)
(* entry is not active: when the entry (plugin, X) is active the call is   *)
(* accepted (in a group that hands the account back), the auth address     *)
(* becomes the plugin's address, lastCalled of (plugin, X) becomes the     *)
(* round, and every other entry, namedPlugins, admin, revocationApp and    *)
(* passkeys stay as they were; when (plugin, X) is not active either, the  *)
(* call is rejected and nothing changes.  Checked under SpecFrame.         *)
(***************************************************************************)
C20_OwnEntryIsStampedAlone ==
  [][ (UsesPlugin /\ ~Active(WildKey(Txn.plugin)))
      => LET own == PluginsKey(Txn.plugin, Txn.sender) IN
           /\ (Active(own) /\ CanHandOver)
                => /\ Accepted
                   /\ authAddr' = AppAddr(Txn.plugin)
                   /\ plugins' = [plugins EXCEPT ![own].lastCalled = round]
                   /\ namedPlugins' = namedPlugins
                   /\ admin' = admin
                   /\ revocationApp' = revocationApp
                   /\ passkeys' = passkeys
           /\ ~Active(own)
                => /\ Rejected
                   /\ Ledger' = Ledger ]_vars

\* Bob used his own entry while the wildcard entry was there but not
\* active, beside a named entry and a passkey
C20_Witness ==
  LET own == PluginsKey(Plugin1, Bob) IN
    /\ txnGroup = UsePlugin(Bob, Plugin1)
    /\ groupIndex = 2
    /\ authAddr = AppAddr(Plugin1)
    /\ {own, WildKey(Plugin1)} \subseteq DOMAIN plugins
    /\ {own, WildKey(Plugin1)} \subseteq DOMAIN committed.plugins
    /\ plugins[WildKey(Plugin1)] = committed.plugins[WildKey(Plugin1)]
    /\ plugins[own].lastCalled = round
    /\ committed.plugins[own].lastCalled < round
    /\ "optIn" \in DOMAIN namedPlugins
    /\ Bob \in DOMAIN passkeys

\* the address has a passkey entry of the akita domain
HasAkitaPasskey(a) == a \in DOMAIN passkeys /\ passkeys[a] = AkitaDomain

(***************************************************************************)
(* C21.  passkeys changes only when an accepted arc58_addPlugin with       *)
(* isPasskey writes the entry of its allowedCaller.  In particular an      *)
(* address with a passkey of the akita domain keeps it, and passes         *)
(* isAdmin, after arc58_removePlugin (of its own entry too),               *)
(* arc58_removeNamedPlugin, arc58_changeAdmin and arc58_pluginChangeAdmin  *)
(* are accepted.  Checked under SpecRoles.                                 *)
(***************************************************************************)
C21_OnlyAddPluginWritesPasskeys ==
  [][ /\ passkeys' # passkeys
        => /\ Calls("arc58_addPlugin")
           /\ Txn.isPasskey
           /\ Accepted
           /\ passkeys' = BoxPut(passkeys, Txn.allowedCaller, Txn.domain)
      /\ \A a \in Keyed :
           ( /\ HasAkitaPasskey(a)
             /\ Running
             /\ Txn.method \in {"arc58_removePlugin", "arc58_removeNamedPlugin",
                                "arc58_changeAdmin", "arc58_pluginChangeAdmin"}
             /\ Accepted )
           => /\ HasAkitaPasskey(a)'
              /\ isAdmin(a)' ]_vars

\* Bob's entry was removed while Alice was no longer the admin, and Bob
\* still has his passkey of the akita domain
C21_Witness ==
  /\ txnGroup \in {<<RemovePlugin(Alice, Plugin2, Bob)>>,
                   <<CalledBy(RevokerApp, RemovePlugin(Bob, Plugin2, Bob))>>}
  /\ groupIndex = 2
  /\ PluginsKey(Plugin2, Bob) \in DOMAIN committed.plugins
  /\ PluginsKey(Plugin2, Bob) \notin DOMAIN plugins
  /\ admin \notin {Alice, Bob}
  /\ HasAkitaPasskey(Bob)
  /\ isAdmin(Bob)

(***************************************************************************)
(* C22.  In every committed state the admin is not the controlled address. *)
(* Checked under SpecFlash, where arc58_changeAdmin with the controlled    *)
(* address as newAdmin fails it.                                           *)
(***************************************************************************)
C22_AdminIsNotTheControlledAddress == committed.admin # committed.controlledAddress

\* the entry at `key` of the box map `boxes` exists, is not expired and is
\* out of its cooldown
ActiveIn(boxes, key) ==
  /\ key \in DOMAIN boxes
  /\ round <= boxes[key].lastValidRound
  /\ round - boxes[key].lastCalled >= boxes[key].cooldown

\* the key under which the group's first transaction, an accepted
\* arc58_rekeyToPlugin evaluated on the state the group started from, rekeyed
\* the account to the plugin
HandedKey ==
  LET t == txnGroup[1] IN
    PluginsKey(t.plugin,
               IF ActiveIn(committed.plugins, WildKey(t.plugin))
               THEN ZeroAddress ELSE t.sender)

(***************************************************************************)
(* C23.  When arc58_pluginChangeAdmin(plugin, allowedCaller, newAdmin) is  *)
(* accepted, the entry at (plugin, allowedCaller) is not expired and is    *)
(* the entry under which arc58_rekeyToPlugin rekeyed the account to the    *)
(* plugin in this group.  Checked under SpecAdmin, where a plugin rekeyed  *)
(* to under the wildcard entry, which has no admin privileges, names Bob's *)
(* entry, which has them.                                                  *)
(***************************************************************************)
C23_PrivilegeComesFromTheEntryUsed ==
  [][ (Calls("arc58_pluginChangeAdmin") /\ Accepted)
      => LET key == PluginsKey(Txn.plugin, Txn.allowedCaller) IN
           /\ key \in DOMAIN plugins
           /\ plugins[key].lastValidRound >= round
           /\ groupIndex > 1
           /\ IsCallOf(txnGroup[1], {"arc58_rekeyToPlugin"})
           /\ key = HandedKey ]_vars

\* the application a call of arc58_rekeyToPlugin or arc58_rekeyToNamedPlugin
\* rekeys to
DelegatedApp ==
  IF Txn.method = "arc58_rekeyToNamedPlugin"
  THEN namedPlugins[Txn.name].application
  ELSE Txn.plugin

\* an accepted call of arc58_rekeyToPlugin or arc58_rekeyToNamedPlugin
DelegationAccepted ==
  /\ Running
  /\ IsCallOf(Txn, {"arc58_rekeyToPlugin", "arc58_rekeyToNamedPlugin"})
  /\ Accepted

\* an accepted call of arc58_addPlugin or arc58_addNamedPlugin that writes `key`
AddAccepted(key) ==
  /\ Running
  /\ IsCallOf(Txn, {"arc58_addPlugin", "arc58_addNamedPlugin"})
  /\ Accepted
  /\ key = PluginsKey(Txn.plugin, Txn.allowedCaller)

(***************************************************************************)
(* C24.  lastCalled of an entry is the round of the last accepted rekey to *)
(* a plugin that wrote the entry, or 0 when the entry was added since: in  *)
(* a step that is not the rollback of a group it changes only by such a    *)
(* rekey, to the round, or by an add of its key, to 0.  An accepted rekey  *)
(* to a plugin writes lastCalled of exactly one entry; when that entry has *)
(* cooldown c and was last written by a rekey at round h, round - h >= c;  *)
(* with c >= 1 the entry was not written in this round, so a group cannot  *)
(* use it twice.  Checked under SpecCooldown.                              *)
(***************************************************************************)
C24_StampsAreACooldownApart ==
  [][ /\ \A key \in DOMAIN plugins \cap DOMAIN plugins' :
           (plugins'[key].lastCalled # plugins[key].lastCalled /\ ~Rejected)
             => \/ DelegationAccepted /\ plugins'[key].lastCalled = round
                \/ AddAccepted(key) /\ plugins'[key].lastCalled = 0
      /\ DelegationAccepted
           => \E key \in DOMAIN plugins :
                /\ plugins' = [plugins EXCEPT ![key].lastCalled = round]
                /\ key.application = DelegatedApp
                /\ plugins[key].lastCalled > 0
                     => round - plugins[key].lastCalled >= plugins[key].cooldown
                /\ plugins[key].cooldown >= 1 => plugins[key].lastCalled # round ]_vars

\* an entry with a cooldown of at least one round, written by a rekey in an
\* earlier round, has just been written again by the first call of the group
C24_Witness ==
  /\ ~Idle
  /\ groupIndex = 2
  /\ IsCallOf(txnGroup[1], {"arc58_rekeyToPlugin", "arc58_rekeyToNamedPlugin"})
  /\ \E key \in DOMAIN plugins \cap DOMAIN committed.plugins :
       /\ plugins[key].cooldown >= 1
       /\ committed.plugins[key].lastCalled > 0
       /\ committed.plugins[key].lastCalled < round
       /\ plugins[key].lastCalled = round
====
